---- MODULE Spec2Model ----
(***************************************************************************)
(* Model of the module registry (src/module_loader.py, ModuleLoader) and   *)
(* of the pairwise affinity optimizer (src/synergy_optimizer.py,           *)
(* SynergyOptimizer).                                                      *)
(*                                                                         *)
(* A Python dict is a sequence of records [k, v] in insertion order.       *)
(* An exception is a record [kind, cause, context]: its class name, the    *)
(* class of its __cause__ and the class of its __context__ ("None" when    *)
(* absent).  A call's observable result is kept in ret; the calls it made  *)
(* to the module resolution mechanism (importlib) are kept in calls.       *)
(***************************************************************************)
EXTENDS Integers, Sequences, FiniteSets, TLC

VARIABLES
    module_paths,   \* ModuleLoader.module_paths: configured ordered names
    modules,        \* ModuleLoader.modules: dict name -> handle
    freshness,      \* per unit: how often the module object a handle refers to was rewritten in place
    succeeded,      \* history: names whose resolution returned a truthy handle in a load_modules call
    optimizer,      \* the SynergyOptimizer instance: [made, ref, own]
    synergies,      \* the dict last returned by find_synergies
    calls,          \* calls the last operation made to importlib and to _evaluate_connection
    ret             \* result of the last operation: [op, args, value, exc]

vars == <<module_paths, modules, freshness, succeeded, optimizer, synergies, calls, ret>>

(***************************************************************************)
(* Bounds                                                                  *)
(***************************************************************************)
MaxReload == 1      \* in-place re-executions counted per unit
MaxKeys == 3        \* size of a dict handed directly to SynergyOptimizer

(***************************************************************************)
(* Values                                                                  *)
(***************************************************************************)
ConfiguredNames == {"perception", "reasoning", "memory"}

\* A dict key that is not a str and has no len() (the int 7).
IntKey == "<int 7>"

OptKeys == {"", "x", "yy", "zzz", IntKey}

DistinctSeqs(S, n) ==
    { s \in UNION { [1..k -> S] : k \in 0..n } :
        \A i, j \in DOMAIN s : i # j => s[i] # s[j] }

Range(s) == { s[i] : i \in DOMAIN s }

\* dict helpers
DictKeys(d) == [i \in DOMAIN d |-> d[i].k]

KeySet(d) == { d[i].k : i \in DOMAIN d }

DictGet(d, key) == (CHOOSE i \in DOMAIN d : d[i].k = key)

DictSet_moveToEnd(d, key, val) ==
    Append(SelectSeq(d, LAMBDA e : e.k # key), [k |-> key, v |-> val])

\* d[key] = val: an existing key keeps its position, a new key is appended
DictSet(d, key, val) ==
    IF key \in KeySet(d)
    THEN [i \in DOMAIN d |-> IF d[i].k = key THEN [k |-> key, v |-> val] ELSE d[i]]
    ELSE Append(d, [k |-> key, v |-> val])

\* exceptions
NoExc == [kind |-> "None", cause |-> "None", context |-> "None"]

\* raise Kind(...) with no exception being handled; Kind is looked up in the module's globals
RaiseNew(globals, kind) ==
    IF kind \in globals
    THEN [kind |-> kind, cause |-> "None", context |-> "None"]
    ELSE [kind |-> "NameError", cause |-> "None", context |-> "None"]

\* raise Kind(...) from e inside the handler of e; an unbound Kind raises
\* NameError before "from e" applies, so only the implicit context is set
RaiseFrom(globals, kind, e) ==
    IF kind \in globals
    THEN [kind |-> kind, cause |-> e.kind, context |-> e.kind]
    ELSE [kind |-> "NameError", cause |-> "None", context |-> e.kind]

Builtin(kind) == [kind |-> kind, cause |-> "None", context |-> "None"]

(***************************************************************************)
(* src/module_loader.py                                                    *)
(***************************************************************************)
\* the exception classes bound at module level in module_loader.py
LoaderGlobals == {"ModuleImportError", "ModuleNotFoundError", "ModuleReloadError"}

\* what importlib.import_module(name) can do: return a module, return a
\* falsy object, raise ImportError, raise another Exception
ImportOutcomes == {"ok", "falsy", "ImportError", "SyntaxError"}

\* what importlib.reload(module) can do: succeed, or raise an Exception
ReloadOutcomes == {"ok", "ImportError", "SyntaxError"}

Handle(name, truthy) == [unit |-> name, truthy |-> truthy]

\* ModuleLoader._import_module: only ImportError is translated
_import_module(module_name, o) ==
    CASE o = "ok" -> [value |-> Handle(module_name, TRUE), exc |-> NoExc]
      [] o = "falsy" -> [value |-> Handle(module_name, FALSE), exc |-> NoExc]
      [] o = "ImportError" ->
            [value |-> Handle(module_name, FALSE),
             exc |-> RaiseFrom(LoaderGlobals, "ModuleImportError", Builtin("ImportError"))]
      [] OTHER -> [value |-> Handle(module_name, FALSE), exc |-> Builtin(o)]

Stores_always(value) == TRUE

Stores_notNone(value) == value.truthy \/ ~value.truthy

\* if module: (the truthiness test on what _import_module returned)
Stores(value) == value.truthy

\* a loop that notes a failure and goes on to the next name
RECURSIVE LoadLoop_continues(_, _, _, _, _)
LoadLoop_continues(mods, paths, outs, i, log) ==
    IF i > Len(paths)
    THEN [modules |-> mods, calls |-> log,
          exc |-> IF \A j \in DOMAIN log : log[j].out = "ok"
                  THEN NoExc
                  ELSE RaiseNew(LoaderGlobals, "ModuleNotFoundError")]
    ELSE LET path == paths[i]
             r == _import_module(path, outs[i])
             log2 == Append(log, [fn |-> "import_module", name |-> path, out |-> outs[i]])
         IN  IF r.exc = NoExc /\ Stores(r.value)
             THEN LoadLoop_continues(DictSet(mods, path, r.value), paths, outs, i + 1, log2)
             ELSE LoadLoop_continues(mods, paths, outs, i + 1, log2)

\* the for loop of load_modules from position i on; log holds the resolve
\* calls made so far, exc the exception that left the loop
RECURSIVE LoadLoop(_, _, _, _, _)
LoadLoop(mods, paths, outs, i, log) ==
    IF i > Len(paths)
    THEN [modules |-> mods, calls |-> log, exc |-> NoExc]
    ELSE LET path == paths[i]
             r == _import_module(path, outs[i])
             log2 == Append(log, [fn |-> "import_module", name |-> path, out |-> outs[i]])
         IN  IF r.exc # NoExc
             THEN [modules |-> mods, calls |-> log2, exc |-> r.exc]
             ELSE IF Stores(r.value)
                  THEN LoadLoop(DictSet(mods, path, r.value), paths, outs, i + 1, log2)
                  ELSE [modules |-> mods, calls |-> log2,
                        exc |-> RaiseNew(LoaderGlobals, "ModuleNotFoundError")]

\* the except clause of load_modules: every Exception is re-raised as
\* ModuleLoadError from e
LoadWrap(e) == RaiseFrom(LoaderGlobals, "ModuleLoadError", e)

\* a load_modules that empties the registry when a name fails
LoadModules_clearsOnFailure(mods, paths, outs) ==
    LET r == LoadLoop(mods, paths, outs, 1, <<>>)
    IN  [modules |-> IF r.exc = NoExc THEN r.modules ELSE <<>>,
         calls |-> r.calls, inner |-> r.exc,
         exc |-> IF r.exc = NoExc THEN NoExc ELSE LoadWrap(r.exc)]

\* ModuleLoader.load_modules: [modules, calls, inner, exc]
LoadModules(mods, paths, outs) ==
    LET r == LoadLoop(mods, paths, outs, 1, <<>>)
    IN  [modules |-> r.modules, calls |-> r.calls, inner |-> r.exc,
         exc |-> IF r.exc = NoExc THEN NoExc ELSE LoadWrap(r.exc)]

\* the membership test that guards reload_module
IsLoaded(mods, module_name) == module_name \in KeySet(mods)

ReloadWrap_swallow(e) == NoExc

\* the except clause of reload_module
ReloadWrap(e) == RaiseFrom(LoaderGlobals, "ModuleReloadError", e)

ReloadMissing_loadsFresh(mods, fresh, module_name) ==
    [modules |-> DictSet(mods, module_name, Handle(module_name, TRUE)),
     freshness |-> fresh,
     calls |-> <<[fn |-> "import_module", name |-> module_name, out |-> "ok"]>>,
     exc |-> NoExc]

\* if module_name not in self.modules: raise ModuleNotFoundError
ReloadMissing(mods, fresh, module_name) ==
    [modules |-> mods, freshness |-> fresh, calls |-> <<>>,
     exc |-> RaiseNew(LoaderGlobals, "ModuleNotFoundError")]

\* a reload_module that forgets the name when its re-execution fails
ReloadModule_dropsOnFailure(mods, fresh, module_name, o, touched) ==
    IF ~IsLoaded(mods, module_name)
    THEN ReloadMissing(mods, fresh, module_name)
    ELSE LET h == mods[DictGet(mods, module_name)].v
             log == <<[fn |-> "reload", name |-> h.unit, out |-> o]>>
         IN  IF o = "ok"
             THEN [modules |-> mods,
                   freshness |-> [fresh EXCEPT ![h.unit] = @ + 1],
                   calls |-> log, exc |-> NoExc]
             ELSE [modules |-> SelectSeq(mods, LAMBDA e : e.k # module_name),
                   freshness |-> [fresh EXCEPT ![h.unit] = IF touched THEN @ + 1 ELSE @],
                   calls |-> log, exc |-> ReloadWrap(Builtin(o))]

\* ModuleLoader.reload_module: [modules, freshness, calls, exc].
\* importlib.reload re-executes the module object in place; touched tells
\* whether a failing re-execution had already rewritten part of it
ReloadModule(mods, fresh, module_name, o, touched) ==
    IF ~IsLoaded(mods, module_name)
    THEN ReloadMissing(mods, fresh, module_name)
    ELSE LET h == mods[DictGet(mods, module_name)].v
             log == <<[fn |-> "reload", name |-> h.unit, out |-> o]>>
         IN  IF o = "ok"
             THEN [modules |-> mods,
                   freshness |-> [fresh EXCEPT ![h.unit] = @ + 1],
                   calls |-> log, exc |-> NoExc]
             ELSE [modules |-> mods,
                   freshness |-> [fresh EXCEPT ![h.unit] = IF touched THEN @ + 1 ELSE @],
                   calls |-> log, exc |-> ReloadWrap(Builtin(o))]

Result(op, args, value, exc) == [op |-> op, args |-> args, value |-> value, exc |-> exc]

\* ModuleLoader.__init__ (module_paths as configured), no optimizer yet
Init ==
    /\ module_paths \in DistinctSeqs(ConfiguredNames, Cardinality(ConfiguredNames)) \ {<<>>}
    /\ modules = <<>>
    /\ freshness = [n \in ConfiguredNames |-> 0]
    /\ succeeded = {}
    /\ optimizer = [made |-> FALSE, ref |-> FALSE, own |-> <<>>]
    /\ synergies = <<>>
    /\ calls = <<>>
    /\ ret = Result("__init__", <<>>, <<>>, NoExc)

load_modules ==
    \E outs \in [1..Len(module_paths) -> ImportOutcomes] :
        LET r == LoadModules(modules, module_paths, outs)
        IN  /\ modules' = r.modules
            /\ calls' = r.calls
            /\ succeeded' = succeeded \cup
                    { module_paths[i] : i \in { j \in 1..Len(r.calls) : outs[j] = "ok" } }
            /\ ret' = Result("load_modules", <<>>,
                             IF r.exc = NoExc THEN r.modules ELSE <<>>, r.exc)
            /\ UNCHANGED <<module_paths, freshness, optimizer, synergies>>

reload_module ==
    \E module_name \in ConfiguredNames, o \in ReloadOutcomes, touched \in BOOLEAN :
        LET r == ReloadModule(modules, freshness, module_name, o, touched)
        IN  /\ \A n \in ConfiguredNames : r.freshness[n] <= MaxReload
            /\ modules' = r.modules
            /\ freshness' = r.freshness
            /\ calls' = r.calls
            /\ ret' = Result("reload_module", <<module_name>>, <<>>, r.exc)
            /\ UNCHANGED <<module_paths, succeeded, optimizer, synergies>>

(***************************************************************************)
(* src/synergy_optimizer.py                                                *)
(***************************************************************************)
\* the exception classes of synergy_optimizer.py (EvaluationFailure and
\* OptimizationFailure of the error taxonomy)
OptimizerGlobals == {"ModuleConnectionError", "SynergyAnalysisError"}

\* max_score = -1
Sentinel == -1

\* len(key) is defined for str keys only
HasLen(key) == key # IntKey

\* bool(key): the empty string is falsy
Truthy(key) == key # ""

Abs(n) == IF n < 0 THEN -n ELSE n

Score_noabs(module1, module2) == 1 - ((Len(module1) + Len(module2)) % 3)

\* abs(1 - (len(module1) + len(module2)) % 3)
Score(module1, module2) == Abs(1 - ((Len(module1) + Len(module2)) % 3))

\* the except clause of _evaluate_connection
EvalWrap(e) == RaiseFrom(OptimizerGlobals, "ModuleConnectionError", e)

\* SynergyOptimizer._evaluate_connection: [value, exc]
_evaluate_connection(module1, module2) ==
    IF HasLen(module1) /\ HasLen(module2)
    THEN [value |-> Score(module1, module2), exc |-> NoExc]
    ELSE [value |-> Sentinel, exc |-> EvalWrap(Builtin("TypeError"))]

Better_orEqual(score, max_score) == score >= max_score

\* a score replaces the running best only when strictly greater
Better(score, max_score) == score > max_score

\* the inner for loop of find_synergies from position j on; log holds the
\* _evaluate_connection calls made so far
RECURSIVE InnerLoop(_, _, _, _, _, _)
InnerLoop(keys, module1, j, max_score, best_module, log) ==
    IF j > Len(keys)
    THEN [best_module |-> best_module, calls |-> log, exc |-> NoExc]
    ELSE LET module2 == keys[j]
         IN  IF module1 # module2
             THEN LET r == _evaluate_connection(module1, module2)
                      log2 == Append(log, [fn |-> "_evaluate_connection",
                                           name |-> module1, with |-> module2,
                                           out |-> r.exc.kind])
                  IN  IF r.exc # NoExc
                      THEN [best_module |-> best_module, calls |-> log2, exc |-> r.exc]
                      ELSE IF Better(r.value, max_score)
                           THEN InnerLoop(keys, module1, j + 1, r.value, module2, log2)
                           ELSE InnerLoop(keys, module1, j + 1, max_score, best_module, log2)
             ELSE InnerLoop(keys, module1, j + 1, max_score, best_module, log)

\* a Record that keeps the mapping injective: a partner already taken is
\* not given to a second name
Record_injective(syn, module1, best_module) ==
    IF Truthy(best_module) /\ \A i \in DOMAIN syn : syn[i].v # best_module
    THEN DictSet(syn, module1, best_module)
    ELSE syn

\* if best_module: synergies[module1] = best_module
Record(syn, module1, best_module) ==
    IF Truthy(best_module) THEN DictSet(syn, module1, best_module) ELSE syn

\* the outer for loop of find_synergies from position i on
RECURSIVE OuterLoop(_, _, _, _)
OuterLoop(keys, i, syn, log) ==
    IF i > Len(keys)
    THEN [synergies |-> syn, calls |-> log, exc |-> NoExc]
    ELSE LET module1 == keys[i]
             r == InnerLoop(keys, module1, 1, Sentinel, "", log)
         IN  IF r.exc # NoExc
             THEN [synergies |-> syn, calls |-> r.calls, exc |-> r.exc]
             ELSE OuterLoop(keys, i + 1, Record(syn, module1, r.best_module), r.calls)

FindWrap_raw(e) == e

\* the except clause of find_synergies
FindWrap(e) == RaiseFrom(OptimizerGlobals, "SynergyAnalysisError", e)

\* SynergyOptimizer.find_synergies over the keys of self.modules:
\* [synergies, calls, exc]
FindSynergies(keys) ==
    LET r == OuterLoop(keys, 1, <<>>, <<>>)
    IN  IF r.exc = NoExc
        THEN [synergies |-> r.synergies, calls |-> r.calls, exc |-> NoExc]
        ELSE [synergies |-> <<>>, calls |-> r.calls, exc |-> FindWrap(r.exc)]

\* self.modules of the optimizer: the very dict it was constructed with
OptimizerModules ==
    IF optimizer.ref THEN modules ELSE optimizer.own

\* a dict of opaque objects with the given keys
DictOf(keys) == [i \in DOMAIN keys |-> [k |-> keys[i], v |-> Handle(keys[i], TRUE)]]

\* SynergyOptimizer(loader.modules): self.modules = modules keeps the reference
NewOptimizer ==
    /\ ~optimizer.made
    /\ optimizer' = [made |-> TRUE, ref |-> TRUE, own |-> <<>>]
    /\ calls' = <<>>
    /\ ret' = Result("SynergyOptimizer", <<>>, <<>>, NoExc)
    /\ UNCHANGED <<module_paths, modules, freshness, succeeded, synergies>>

find_synergies_writesModules ==
    /\ optimizer.made
    /\ optimizer.ref
    /\ LET r == FindSynergies(DictKeys(OptimizerModules))
       IN  /\ modules' = (IF r.exc = NoExc /\ r.synergies # <<>>
                          THEN DictSet(modules, r.synergies[1].k,
                                       Handle(r.synergies[1].v, TRUE))
                          ELSE modules)
           /\ synergies' = (IF r.exc = NoExc THEN r.synergies ELSE synergies)
           /\ ret' = Result("find_synergies", <<>>, r.synergies, r.exc)
           /\ calls' = r.calls
    /\ UNCHANGED <<module_paths, freshness, succeeded, optimizer>>

find_synergies ==
    /\ optimizer.made
    /\ LET r == FindSynergies(DictKeys(OptimizerModules))
       IN  /\ synergies' = (IF r.exc = NoExc THEN r.synergies ELSE synergies)
           /\ ret' = Result("find_synergies", <<>>, r.synergies, r.exc)
           /\ calls' = r.calls
    /\ UNCHANGED <<module_paths, modules, freshness, succeeded, optimizer>>

evaluate_connection ==
    /\ optimizer.made
    /\ \E module1, module2 \in
            (IF optimizer.ref THEN Range(module_paths) ELSE OptKeys) :
        LET r == _evaluate_connection(module1, module2)
        IN  ret' = Result("_evaluate_connection", <<module1, module2>>,
                          IF r.exc = NoExc THEN <<r.value>> ELSE <<>>, r.exc)
    /\ calls' = <<>>
    /\ UNCHANGED <<module_paths, modules, freshness, succeeded, optimizer, synergies>>

Next ==
    \/ load_modules
    \/ reload_module
    \/ NewOptimizer
    \/ find_synergies
    \/ evaluate_connection

Spec == Init /\ [][Next]_vars

\* a registry never loaded, and an optimizer constructed with a dict of the
\* caller's own
InitOpt ==
    /\ module_paths = <<"perception", "reasoning", "memory">>
    /\ modules = <<>>
    /\ freshness = [n \in ConfiguredNames |-> 0]
    /\ succeeded = {}
    /\ \E keys \in DistinctSeqs(OptKeys, MaxKeys) :
            optimizer = [made |-> TRUE, ref |-> FALSE, own |-> DictOf(keys)]
    /\ synergies = <<>>
    /\ calls = <<>>
    /\ ret = Result("SynergyOptimizer", <<>>, <<>>, NoExc)

NextOpt ==
    \/ find_synergies
    \/ evaluate_connection

SpecOpt == InitOpt /\ [][NextOpt]_vars

(***************************************************************************)
(* Properties                                                              *)
(***************************************************************************)
Last(s) == s[Len(s)]

\* the keys the optimizer iterates over, in iteration order
OptimizerKeys == DictKeys(OptimizerModules)

Pos(keys, key) == CHOOSE i \in DOMAIN keys : keys[i] = key

\* |1 - ((len(a) + len(b)) mod 3)| by cases on the residue
PairScore(a, b) ==
    LET m == (Len(a) + Len(b)) % 3
    IN  CASE m = 0 -> 1
          [] m = 1 -> 0
          [] m = 2 -> 1

\* the failure a resolve outcome starts inside load_modules
OriginalFailure(out) ==
    CASE out = "ImportError" -> "ModuleImportError"
      [] out = "falsy" -> "ModuleNotFoundError"
      [] OTHER -> out

\* C1: a load_modules call on a fresh registry either returns a mapping whose
\* keys are exactly the configured names, or raises ModuleLoadError
\* (BatchLoadFailure) and leaves in the registry exactly the prefix of names
\* resolved before the first failing name.
C1_AllOrPrefixWithBatchFailure ==
    [][ (modules = <<>> /\ ret'.op = "load_modules") =>
            \/ /\ ret'.exc = NoExc
               /\ KeySet(ret'.value) = Range(module_paths)
            \/ /\ ret'.exc.kind = "ModuleLoadError"
               /\ DictKeys(modules') = SubSeq(module_paths, 1, Len(calls') - 1) ]_vars

\* C2: reload_module of a name that is not a key of the registry raises
\* ModuleNotFoundError (NotLoaded), calls the resolution mechanism not at all
\* and leaves the mapping and the module objects as they were.
C2_ReloadOfAbsentNameRaisesNotLoaded ==
    [][ (ret'.op = "reload_module" /\ ret'.args[1] \notin KeySet(modules)) =>
            /\ ret'.exc = [kind |-> "ModuleNotFoundError", cause |-> "None", context |-> "None"]
            /\ calls' = <<>>
            /\ modules' = modules
            /\ freshness' = freshness ]_vars

\* a reload of a name not loaded, while another name is loaded
C2_Witness ==
    /\ ret.op = "reload_module"
    /\ ret.exc.kind = "ModuleNotFoundError"
    /\ ret.args[1] \notin KeySet(modules)
    /\ modules # <<>>

\* C3: every entry m1 -> p of the mapping find_synergies returns has p among
\* the names, p # m1, the score of (m1, p) maximal over the other names, and
\* every other name before p in iteration order scoring strictly less.
C3_PartnerIsFirstMaximum ==
    (ret.op = "find_synergies" /\ ret.exc = NoExc) =>
        \A i \in DOMAIN ret.value :
            LET m1 == ret.value[i].k
                p == ret.value[i].v
                others == Range(OptimizerKeys) \ {m1}
            IN  /\ m1 \in Range(OptimizerKeys)
                /\ p \in others
                /\ \A m2 \in others :
                      /\ PairScore(m1, m2) <= PairScore(m1, p)
                      /\ Pos(OptimizerKeys, m2) < Pos(OptimizerKeys, p)
                            => PairScore(m1, m2) < PairScore(m1, p)

\* "yy" ties between "x" and "zzz" and keeps "x", the first; "zzz" passes
\* over "x" for the later, better "yy"
C3_Witness ==
    /\ ret.op = "find_synergies"
    /\ OptimizerKeys = <<"x", "yy", "zzz">>
    /\ ret.value = <<[k |-> "x", v |-> "yy"], [k |-> "yy", v |-> "x"],
                     [k |-> "zzz", v |-> "yy"]>>

\* C4: over string names the mapping find_synergies returns has no key when
\* there are 0 or 1 names and has every name as a key when there are 2 or more.
C4_KeysDependOnlyOnSize ==
    (ret.op = "find_synergies" /\ IntKey \notin Range(OptimizerKeys)) =>
        /\ ret.exc = NoExc
        /\ KeySet(ret.value) =
              (IF Len(OptimizerKeys) <= 1 THEN {} ELSE Range(OptimizerKeys))

C6_OnlyBatchFailureEscapes ==
    (ret.op = "load_modules" /\ \E i \in DOMAIN calls : calls[i].out # "ok") =>
        /\ ret.exc.kind = "ModuleLoadError"
        /\ ret.exc.cause = OriginalFailure(Last(calls).out)

\* C7: for string names a and b _evaluate_connection returns
\* |1 - ((len(a) + len(b)) mod 3)|, a value in {0, 1} fixed by the two names.
C7_ScoreFormula ==
    (ret.op = "_evaluate_connection" /\ IntKey \notin Range(ret.args)) =>
        /\ ret.exc = NoExc
        /\ ret.value = <<PairScore(ret.args[1], ret.args[2])>>
        /\ ret.value[1] \in {0, 1}

\* lengths 2 + 3 = 5, residue 2, score 1
C7_Witness ==
    /\ ret.op = "_evaluate_connection"
    /\ ret.args = <<"yy", "zzz">>
    /\ ret.value = <<1>>

\* C8: every key of the registry is a configured name whose resolution
\* returned a truthy handle in some load_modules call so far, and a
\* load_modules call adds no name whose resolution failed in it.
C8_KeysAreSuccessfullyLoadedNames ==
    /\ [](\A n \in KeySet(modules) : n \in Range(module_paths) /\ n \in succeeded)
    /\ [][ ret'.op = "load_modules" =>
             \A i \in DOMAIN calls' :
                 calls'[i].out # "ok" =>
                     (calls'[i].name \in KeySet(modules') => calls'[i].name \in KeySet(modules)) ]_vars

\* a load_modules call that failed after recording a name
C8_Witness ==
    /\ ret.op = "load_modules"
    /\ ret.exc # NoExc
    /\ Len(calls) >= 2
    /\ Len(modules) = Len(calls) - 1

\* C9: reload_module of a loaded name returns normally only if the
\* re-execution of the stored handle succeeded; if it raised, the call raises
\* ModuleReloadError (ReloadFailure) whose cause is what was raised, and the
\* name is still a key.
C9_ReloadFailureIsReported ==
    [][ (ret'.op = "reload_module" /\ ret'.args[1] \in KeySet(modules)) =>
            /\ Len(calls') = 1
            /\ calls'[1].fn = "reload"
            /\ calls'[1].name = ret'.args[1]
            /\ (ret'.exc = NoExc <=> calls'[1].out = "ok")
            /\ calls'[1].out # "ok" =>
                  ret'.exc = [kind |-> "ModuleReloadError", cause |-> calls'[1].out,
                              context |-> calls'[1].out]
            /\ ret'.args[1] \in KeySet(modules') ]_vars

\* a reload of a loaded name whose re-execution raised
C9_Witness ==
    /\ ret.op = "reload_module"
    /\ ret.args[1] \in KeySet(modules)
    /\ calls # <<>>
    /\ calls[1].out = "SyntaxError"
    /\ ret.exc.kind = "ModuleReloadError"

\* C10: when the resolution of a name returns a falsy handle inside
\* load_modules, the call does not record that name, resolves no later
\* name, and the ModuleNotFoundError (ModuleUnavailable) raised for the name
\* is the cause of the ModuleLoadError the call raises.
C10_FalsyHandleIsModuleUnavailable ==
    [][ ret'.op = "load_modules" =>
            \A i \in DOMAIN calls' :
                calls'[i].out = "falsy" =>
                    /\ calls'[i].name \in KeySet(modules') => calls'[i].name \in KeySet(modules)
                    /\ i = Len(calls')
                    /\ ret'.exc.kind = "ModuleLoadError"
                    /\ ret'.exc.cause = "ModuleNotFoundError" ]_vars

\* what find_synergies returns when called in the current state
WouldFind == FindSynergies(OptimizerKeys)

\* a step leaves the result of find_synergies alone: it leaves alone the key
\* sequence find_synergies iterates over, or the results before and after agree
SameFind == OptimizerKeys' = OptimizerKeys \/ WouldFind' = WouldFind

\* every configured name is a key of the registry: the mapping is the one a
\* successful load_modules returns
Complete(mods) == KeySet(mods) = Range(module_paths)

\* C11 (as claimed): once the optimizer is constructed, no load_modules or
\* reload_module call changes what find_synergies returns.
C11_OptimizerWorksOnSnapshot ==
    [][ (optimizer.made /\ optimizer.ref /\ ret'.op \in {"load_modules", "reload_module"}) =>
            SameFind ]_vars

\* C11 (amended): once the optimizer holds the mapping of a registry in which
\* every configured name is loaded (the mapping a successful load_modules
\* returns), no load_modules or reload_module call changes what
\* find_synergies returns, and the registry stays fully loaded.
C11_StableOnceFullyLoaded ==
    [][ (optimizer.made /\ optimizer.ref /\ Complete(modules)
            /\ ret'.op \in {"load_modules", "reload_module"}) =>
            /\ Complete(modules')
            /\ SameFind ]_vars

\* a load_modules call that failed at its last name, made on a fully loaded
\* registry of three names that an optimizer already holds
C11_Witness ==
    /\ optimizer.made /\ optimizer.ref
    /\ Len(modules) = 3
    /\ ret.op = "load_modules"
    /\ Len(calls) = 3
    /\ ret.exc # NoExc

\* C12: find_synergies and _evaluate_connection leave the registry (its
\* mapping, its handles, the module objects) and the optimizer as they were,
\* and a find_synergies call that directly follows another returns the same
\* result.
C12_OptimizerOperationsAreReadOnly ==
    [][ ret'.op \in {"find_synergies", "_evaluate_connection"} =>
            /\ modules' = modules
            /\ freshness' = freshness
            /\ module_paths' = module_paths
            /\ optimizer' = optimizer
            /\ (ret.op = "find_synergies" /\ ret'.op = "find_synergies") =>
                    (ret'.value = ret.value /\ ret'.exc = ret.exc)
            /\ (ret'.op = "find_synergies" /\ ret'.exc = NoExc) =>
                    synergies' = ret'.value ]_vars

\* find_synergies has returned a mapping over two loaded names or more
C12_Witness ==
    /\ optimizer.made /\ optimizer.ref
    /\ ret.op = "find_synergies"
    /\ Len(modules) >= 2
    /\ Len(ret.value) = Len(modules)

\* C13: one load_modules call resolves the configured names in configured
\* order, each at most once, and none after the first name whose resolution
\* did not yield a truthy handle; it returns normally only after resolving
\* every name.
C13_ResolvesInOrderUntilFirstFailure ==
    ret.op = "load_modules" =>
        /\ Len(calls) <= Len(module_paths)
        /\ \A i \in DOMAIN calls :
              /\ calls[i].fn = "import_module"
              /\ calls[i].name = module_paths[i]
              /\ i < Len(calls) => calls[i].out = "ok"
        /\ ret.exc = NoExc <=>
              (Len(calls) = Len(module_paths) /\ \A i \in DOMAIN calls : calls[i].out = "ok")

\* the second of three names failed to import and the third was not tried
C13_Witness ==
    /\ ret.op = "load_modules"
    /\ Len(module_paths) = 3
    /\ Len(calls) = 2
    /\ calls[2].out = "ImportError"

\* C14: no load_modules or reload_module call, whatever its outcome, removes
\* a key from the registry: a name that is a key stays a key.
C14_KeysNeverRemoved ==
    [][ \A n \in KeySet(modules) : n \in KeySet(modules') ]_vars

\* a load_modules call that failed at its first name on a registry that
\* already held three names
C14_Witness ==
    /\ ret.op = "load_modules"
    /\ Len(calls) = 1
    /\ ret.exc # NoExc
    /\ Len(modules) = 3

\* C16: reload_module, whether it returns or raises, leaves the registry's
\* keys and every stored handle as they were and leaves the module object of
\* every other name as it was; only the module object of the reloaded name
\* may be rewritten.
C16_ReloadTouchesOnlyItsOwnHandle ==
    [][ ret'.op = "reload_module" =>
            /\ modules' = modules
            /\ \A n \in ConfiguredNames \ {ret'.args[1]} : freshness'[n] = freshness[n]
            /\ freshness'[ret'.args[1]] >= freshness[ret'.args[1]]
            /\ ret'.exc = NoExc => freshness'[ret'.args[1]] = freshness[ret'.args[1]] + 1 ]_vars

\* a reload that raised after rewriting part of the module object, with
\* another name loaded beside it
C16_Witness ==
    /\ ret.op = "reload_module"
    /\ ret.exc.kind = "ModuleReloadError"
    /\ Len(modules) >= 2
    /\ freshness[ret.args[1]] = 1
    /\ \E n \in KeySet(modules) : freshness[n] = 0

\* C17: every handle stored in the registry is truthy.
C17_StoredHandlesAreTruthy ==
    \A i \in DOMAIN modules : modules[i].v.truthy

\* a load_modules call that recorded a name and then got a falsy handle
C17_Witness ==
    /\ ret.op = "load_modules"
    /\ Len(calls) >= 2
    /\ Last(calls).out = "falsy"
    /\ modules # <<>>

\* d maps key to val
MapsTo(d, key, val) == \E i \in DOMAIN d : d[i].k = key /\ d[i].v = val

\* C15: over the names "x", "yy", "zzz" in that iteration order
\* find_synergies returns a mapping that is no matching: some name's partner
\* does not map back to it, and two different names have the same partner.
C15_BestPartnersAreNoMatching ==
    (ret.op = "find_synergies" /\ OptimizerKeys = <<"x", "yy", "zzz">>) =>
        /\ ret.exc = NoExc
        /\ \E i \in DOMAIN ret.value :
              ~MapsTo(ret.value, ret.value[i].v, ret.value[i].k)
        /\ \E i, j \in DOMAIN ret.value :
              i # j /\ ret.value[i].v = ret.value[j].v

\* find_synergies has returned for the names "x", "yy", "zzz": "zzz" maps to
\* "yy", which maps to "x"
C15_Witness ==
    /\ ret.op = "find_synergies"
    /\ OptimizerKeys = <<"x", "yy", "zzz">>
    /\ MapsTo(ret.value, "zzz", "yy")
    /\ MapsTo(ret.value, "yy", "x")
    /\ MapsTo(ret.value, "x", "yy")

====
